---- MODULE Spec2Model ----
(***************************************************************************)
(* Model of the ranking collectors of link-like-lgp-rank-archive:          *)
(*   utils.py          retry_request (bounded retry, sentinel exit)        *)
(*   multicatch.py     RankingDataCollector  (daily total + A/B/C streams) *)
(*   catchgraderank.py GradeRankingDataCollector (one grade stream)        *)
(* Threads are modelled at the granularity of their accesses to shared     *)
(* state: the stop-rank map, the lock, the counters and the futures of the *)
(* ThreadPoolExecutor.  Python's SystemExit raised in a pool worker is     *)
(* stored in the worker's future (concurrent.futures catches BaseException)*)
(* and is re-raised only by future.result().                               *)
(***************************************************************************)
EXTENDS Integers, Sequences, FiniteSets, TLC

\* ------------------------------------------------------------------ bounds
\* TARGET_RANK of config.py is 99999; the model harvests the first offsets:
\* 1, 27, 53 for a collector with one stream, 1, 27 for one with siblings
TargetRankBound == 53
SiblingTargetRankBound == 27
\* sibling streams harvested in current-day mode (A, B, C in the source)
NumSiblings == 1
\* width of the worker pool (100 in the source), scaled so that probes queue
PoolWidth == 2
\* identity keys the remote may return
NumIds == 2
\* entries the remote returns in one page (26 in the source)
PageLen == 1
\* transient or API-error answers the remote gives in one run
MaxFaults == 3
\* entries of a profile's fan_level_list, and the highest level in one
MaxFanInfos == 3
MaxLevel == 2
MaxTargetCount == 130
\* transient answers of the remote of scenario "quiet"
QuietFaults == 1

\* ------------------------------------------------------- program constants
STEP == 26
max_retries == 3
initial_delay == 1
sentinel == "21001_210102"
\* float('inf'): a stop rank is the empty set (unbounded) or a singleton
inf == {}
sibling_types == <<10, 11, 12>>

VARIABLES
  collector,               \* "ranking" (multicatch.py) or "grade" (catchgraderank.py)
  ranking_day_type,        \* 20 or 21 (RankingDataCollector.__init__)
  sibling_count,           \* how many of the sibling streams are harvested
  scenario,                \* "any"; "quiet": a remote that answers with a page or a
                           \* profile after a few transient failures; "A": the
                           \* remote of scenario A
  target_ranks,            \* self.target_ranks, a set of offsets
  pc,                      \* position of the main thread in collect_data
  type_idx,                \* index of the stream being harvested
  stop_ranks,              \* self.stop_ranks / self.stop_rank
  lock,                    \* self.lock: {} when free, else {<<phase, task>>} of the holder
  completed_count_step1,
  completed_count_step2,
  futures,                 \* phase 1: task idx -> future and the worker's locals
  yielded,                 \* futures as_completed has handed to the loop
  all_players_basic_info,  \* stream -> harvested list
  unique_player_ids,       \* grade collector: ids already recorded
  pfutures,                \* phase 2: task idx -> future and the worker's locals
  pyielded,
  data_list,               \* phase 2 output
  sinks,                   \* sequence of sink invocations
  faults,                  \* transient answers given so far
  fatal_signal,            \* history: some thread has raised SystemExit
  empty_seen,              \* history: stream -> offsets whose page had no entries
  error_seen,              \* history: stream -> requests (idx) answered 200 with an API error object
  processed,               \* history: per phase, the requests whose 200 answer was processed
  first_agg,               \* history: stream -> id -> first aggregated entry (as a set)
  answer,                  \* what the operator typed at the pending "continue (y/n)?" prompt
  wrapper,                 \* one call through retry_request on its own: locals and history
  profile,                 \* one call of fetch_player_profile's record building on its own
  rank_targets             \* one call of generate_rank_targets on its own

vars == <<collector, ranking_day_type, sibling_count, scenario, target_ranks, pc, type_idx,
          stop_ranks, lock, completed_count_step1, completed_count_step2,
          futures, yielded, all_players_basic_info, unique_player_ids,
          pfutures, pyielded, data_list, sinks, faults, fatal_signal,
          empty_seen, error_seen, processed, first_agg, answer, wrapper, profile,
          rank_targets>>

\* --------------------------------------------------------------- helpers
Min(S) == CHOOSE x \in S : \A y \in S : x <= y

\* rank > stop, rank < stop for a stop that may be float('inf')
GT(rank, stop) == \E x \in stop : rank > x
LT(rank, stop) == \A x \in stop : rank < x

\* mutant: the loop test is current_rank < target_count
RECURSIVE rank_targets_from_exclusive(_, _)
rank_targets_from_exclusive(current_rank, target_count) ==
  IF current_rank < target_count
  THEN <<current_rank>> \o rank_targets_from_exclusive(current_rank + STEP, target_count)
  ELSE <<>>

RECURSIVE rank_targets_from(_, _)
rank_targets_from(current_rank, target_count) ==
  IF current_rank <= target_count
  THEN <<current_rank>> \o rank_targets_from(current_rank + STEP, target_count)
  ELSE <<>>

generate_rank_targets(target_count) == rank_targets_from(1, target_count)

SeqToSet(s) == {s[i] : i \in 1..Len(s)}

\* sorted(self.target_ranks)
RECURSIVE sorted(_)
sorted(S) == IF S = {} THEN <<>> ELSE <<Min(S)>> \o sorted(S \ {Min(S)})

\* mutant: the sibling streams are fetched on every day type
ranking_types_to_fetch_every_day(c, day, nsib) ==
  IF c = "grade" THEN <<0>> ELSE <<day>> \o sibling_types

\* streams of a collector; the grade collector has one stream, named 0
\* (multicatch.py 255..257)
ranking_types_to_fetch(c, day, nsib) ==
  IF c = "grade" THEN <<0>>
  ELSE IF day = 20 THEN <<day>> ELSE <<day>> \o SubSeq(sibling_types, 1, nsib)

\* keys of self.ranking_types (multicatch.py 48..53)
ranking_types(c, day) ==
  IF c = "grade" THEN {0} ELSE {day} \cup SeqToSet(sibling_types)

\* mutant: a constant delay
Pow2_flat(n) == 1

\* 2 ** n of lines 124 and 133
Pow2(n) == IF n <= 0 THEN 1 ELSE 2 ^ n

\* ------------------------------------------------------------ the remote
Ids == 1..NumIds

\* score the remote reports for a player; player 1 has scored zero
remote_point(id) == id - 1

\* one raw entry of a page requested at target_rank, at position i
raw_entry(id, target_rank, i) ==
  [player_id |-> id, rank |-> target_rank + i - 1, point |-> remote_point(id)]

IdSeqs(maxlen) ==
  UNION {{f \in [1..n -> Ids] : \A i, j \in 1..n : i # j => f[i] # f[j]} : n \in 0..maxlen}

Pages(target_rank) ==
  {[i \in 1..Len(f) |-> raw_entry(f[i], target_rank, i)] : f \in IdSeqs(PageLen)}

\* an answer of the transport to one POST
\*   kind "http": a response with a status code, the error_code of its JSON
\*                body ("none" when it has none) and the entries of the body
\*   kind "exc":  requests raised a RequestException; body is the text of
\*                e.response ("none" when there is no response)
Answer(kind, status, code, rows, body) ==
  [kind |-> kind, status |-> status, code |-> code, rows |-> rows, body |-> body]

page_answer(rows) == Answer("http", 200, "none", rows, "plain")

fault_answers ==
  { Answer("http", 500, "none", <<>>, "plain"),
    Answer("http", 200, "other", <<>>, "plain"),
    Answer("http", 200, sentinel, <<>>, "plain"),
    Answer("http", 500, sentinel, <<>>, "plain"),
    Answer("exc", 0, "none", <<>>, "none"),
    Answer("exc", 0, "none", <<>>, sentinel) }

is_fault(a) == a \in fault_answers

\* the failures the remote may still answer with: any of them in scenario "any",
\* a transient one in scenario "quiet"
faults_left ==
  IF scenario = "any" /\ faults < MaxFaults THEN fault_answers
  ELSE IF scenario = "quiet" /\ faults < QuietFaults
  THEN {Answer("http", 500, "none", <<>>, "plain")}
  ELSE {}

\* the remote of scenario A: 26 distinct entries at offsets 1 and 27, nothing at 53
scenario_A_page(target_rank) ==
  IF target_rank < 2 * STEP + 1
  THEN [i \in 1..STEP |-> [player_id |-> target_rank + i - 1,
                           rank |-> target_rank + i - 1,
                           point |-> 0]]
  ELSE <<>>

ranking_answers(target_rank) ==
  IF scenario = "A" THEN {page_answer(scenario_A_page(target_rank))}
  ELSE {page_answer(rows) : rows \in Pages(target_rank)}
       \cup faults_left

\* ---------------------------------------------------------- retry_request
\* What one call of the wrapped function hands to the wrapper:
\*   "value"        a value that is neither None nor a Response (line 78)
\*   "None"         None (line 80 raises Exception("Empty response"))
\*   "response"     a requests.Response, with status, error_code of its body
\*   "request_exc"  the function raised a RequestException (body: e.response.text)
\*   "exc"          the function raised another ordinary exception
\*   "exit"         the function called sys.exit
\* code "unparsable": response.json() raises
FuncOut(t, status, code, body) == [t |-> t, status |-> status, code |-> code, body |-> body]

WrapOut(t, retries, last_response, wait_time) ==
  [t |-> t, retries |-> retries, last_response |-> last_response, wait_time |-> wait_time]

\* mutant: exhausted retries re-raise the last error instead of returning None
retry_request_reraise(r, retries, last_response) ==
  IF r.t = "exit" THEN WrapOut("exit", retries, last_response, 0)
  ELSE IF r.t = "value" THEN WrapOut("return", retries, last_response, 0)
  ELSE IF r.t = "response" /\ r.code = sentinel THEN WrapOut("exit", retries, last_response, 0)
  ELSE IF r.t = "response" /\ r.status = 200 THEN WrapOut("return", retries, last_response, 0)
  ELSE IF retries + 1 = max_retries THEN WrapOut("raise", retries + 1, last_response, 0)
  ELSE WrapOut("retry", retries + 1, last_response, initial_delay * Pow2(retries))

\* mutant: the wrapper gives up one attempt early
retry_request_gives_up_early(r, retries, last_response) ==
  IF r.t = "exit" THEN WrapOut("exit", retries, last_response, 0)
  ELSE IF r.t = "value" THEN WrapOut("return", retries, last_response, 0)
  ELSE IF r.t = "response" /\ r.code = sentinel THEN WrapOut("exit", retries, last_response, 0)
  ELSE IF r.t = "response" /\ r.status = 200 /\ r.code # "unparsable"
  THEN WrapOut("return", retries, last_response, 0)
  ELSE IF retries + 1 >= max_retries - 1 THEN WrapOut("return_none", retries + 1, last_response, 0)
  ELSE WrapOut("retry", retries + 1, last_response, initial_delay * Pow2(retries))

\* mutant: the sentinel is looked for in failed responses only (lines 38..46 missing)
retry_request_exit_on_failure_only(r, retries, last_response) ==
  IF r.t = "exit" THEN WrapOut("exit", retries, last_response, 0)
  ELSE IF r.t = "value" THEN WrapOut("return", retries, last_response, 0)
  ELSE IF r.t = "response" /\ r.status = 200 /\ r.code # "unparsable"
  THEN WrapOut("return", retries, last_response, 0)
  ELSE IF r.t = "response" /\ r.code = sentinel THEN WrapOut("exit", retries, last_response, 0)
  ELSE IF retries + 1 = max_retries THEN WrapOut("return_none", retries + 1, last_response, 0)
  ELSE WrapOut("retry", retries + 1, last_response, initial_delay * Pow2(retries))

\* mutant: a 200 whose body has an error_code is handled as a failed attempt
retry_request_api_error_failed(r, retries, last_response) ==
  IF r.t = "exit" THEN WrapOut("exit", retries, last_response, 0)
  ELSE IF r.t = "value" THEN WrapOut("return", retries, last_response, 0)
  ELSE IF r.t = "response" /\ r.code = sentinel THEN WrapOut("exit", retries, last_response, 0)
  ELSE IF r.t = "response" /\ r.status = 200 /\ r.code = "none"
  THEN WrapOut("return", retries, last_response, 0)
  ELSE
    LET lr1 == IF r.t = "response" /\ r.status # 200 THEN r.body ELSE last_response
        lr2 == IF r.t \in {"response", "request_exc"} /\ lr1 = "none"
               THEN (IF r.t = "request_exc" THEN r.body ELSE "none")
               ELSE lr1
        n == retries + 1
    IN IF n = max_retries
       THEN WrapOut("return_none", n, lr2, 0)
       ELSE WrapOut("retry", n, lr2, initial_delay * Pow2(n - 1))

\* one iteration of wrapper's while loop (utils.py 32..136)
retry_request(r, retries, last_response) ==
  IF r.t = "exit" THEN WrapOut("exit", retries, last_response, 0)
  ELSE IF r.t = "value" THEN WrapOut("return", retries, last_response, 0)
  \* 38..46: sys.exit(1) inside try/except Exception: SystemExit passes through
  ELSE IF r.t = "response" /\ r.code = sentinel THEN WrapOut("exit", retries, last_response, 0)
  \* 51..58; response.json() of line 52 raises when the body is no JSON
  ELSE IF r.t = "response" /\ r.status = 200 /\ r.code # "unparsable"
  THEN WrapOut("return", retries, last_response, 0)
  ELSE
    LET \* 75: last_response = response.text
        lr1 == IF r.t = "response" /\ r.status # 200 THEN r.body ELSE last_response
        \* 84..85: taken from the exception when nothing was saved; the exception
        \* raised at line 76 carries no response
        lr2 == IF r.t \in {"response", "request_exc"} /\ lr1 = "none"
               THEN (IF r.t = "request_exc" THEN r.body ELSE "none")
               ELSE lr1
        \* 88..100 and 105..120: sys.exit(1) is raised inside try/except: with a
        \* bare except, which catches SystemExit: the wrapper goes on
        n == retries + 1
    IN IF n = max_retries
       THEN WrapOut("return_none", n, lr2, 0)
       ELSE WrapOut("retry", n, lr2, initial_delay * Pow2(n - 1))

\* what a wrapped function may hand to the wrapper in one attempt
func_outs ==
  { FuncOut("value", 0, "none", "none"),
    FuncOut("None", 0, "none", "none"),
    FuncOut("exc", 0, "none", "none") }
  \cup { FuncOut("response", status, code, "plain") :
           status \in {200, 500}, code \in {"none", "other", sentinel, "unparsable"} }
  \cup { FuncOut("request_exc", 0, "none", body) : body \in {"none", "plain", sentinel} }

\* a call of wrapper(*args): its locals, and the history of the call
\*   calls:  what func handed over, attempt by attempt
\*   sleeps: the arguments of time.sleep, in order
\*   out:    "-" while running, then "return", "return_none", "exit" or "raise"
Wrapper(wpc, retries, last_response, wait_time, calls, sleeps, out) ==
  [pc |-> wpc, retries |-> retries, last_response |-> last_response,
   wait_time |-> wait_time, calls |-> calls, sleeps |-> sleeps, out |-> out]

idle_wrapper == Wrapper("idle", 0, "none", 0, <<>>, <<>>, "-")

\* ------------------------------------------------------- futures, phase 1
\* res: the outcome stored in the future
\*   "unset", "value" (rows), "none" (None), "exit" (SystemExit), "error"
Res(kind, rows) == [kind |-> kind, rows |-> rows]

Fut(rank, st, wpc, retries, last_response, wait_time, player_list, cnt, res) ==
  [rank |-> rank, st |-> st, pc |-> wpc, retries |-> retries,
   last_response |-> last_response, wait_time |-> wait_time,
   player_list |-> player_list, cnt |-> cnt, res |-> res]

pending_future(rank) == Fut(rank, "pending", "-", 0, "none", 0, <<>>, 0, Res("unset", <<>>))
\* wrapper entered: last_response = None, retries = 0 (utils.py 29..31)
running_future(rank) == Fut(rank, "running", "attempt", 0, "none", 0, <<>>, 0, Res("unset", <<>>))
finished_future(rank, res) == Fut(rank, "finished", "-", 0, "none", 0, <<>>, 0, res)
cancelled_future(rank) == Fut(rank, "cancelled", "-", 0, "none", 0, <<>>, 0, Res("unset", <<>>))

types_to_fetch == ranking_types_to_fetch(collector, ranking_day_type, sibling_count)
ranking_type == types_to_fetch[type_idx]

\* mutant: one stop rank shared by all streams (the primary stream's)
stop_of_shared(rt) == stop_ranks[types_to_fetch[1]]

\* self.stop_ranks[ranking_type] (multicatch.py) / self.stop_rank (catchgraderank.py)
stop_of(rt) == stop_ranks[rt]

\* mutant: the guard of line 63 is missing
beyond_stop_never(target_rank, rt) == FALSE

\* mutant: the offset of the stop rank itself counts as beyond it
beyond_stop_inclusive(target_rank, rt) ==
  GT(target_rank, stop_of(rt)) \/ stop_of(rt) = {target_rank}

\* multicatch.py 63, catchgraderank.py 144: target_rank > stop rank
beyond_stop(target_rank, rt) == GT(target_rank, stop_of(rt))

\* mutant: the comparison of line 89 is reversed
lowers_stop_reversed(target_rank, rt) == GT(target_rank, stop_of(rt))

\* mutant: the most recent empty offset is recorded
lowers_stop_always(target_rank, rt) == TRUE

\* multicatch.py 89, catchgraderank.py 169: target_rank < stop rank
lowers_stop(target_rank, rt) == LT(target_rank, stop_of(rt))

\* mutant: the critical section is entered without the lock
lock_free_unguarded == TRUE

\* with self.lock: the lock can be taken
lock_free == lock = {}

\* The executor's queue is first-in first-out and a pool has at most max_workers
\* threads: work item t is taken by a worker only after the items submitted
\* before it, each of which occupies a worker until it has finished (a worker
\* marks its item running some time after taking it; a cancelled item is dropped)
occupied_before(fs, t) ==
  Cardinality({u \in DOMAIN fs : u # 0 /\ fs[u].st = "running"})
    + Cardinality({u \in DOMAIN fs : u # 0 /\ u < t /\ fs[u].st = "pending"})

\* mutant: a pool that starts a thread for every work item
worker_available_always(fs, t) == TRUE

worker_available(fs, t) == occupied_before(fs, t) < PoolWidth

unch_conf == <<collector, ranking_day_type, sibling_count, scenario, target_ranks,
               rank_targets>>
unch_cfg == <<unch_conf, answer, wrapper, profile>>
unch_main == <<unch_cfg, pc, type_idx>>
unch_phase2 == <<completed_count_step2, pfutures, pyielded, data_list>>
unch_agg == <<yielded, all_players_basic_info, unique_player_ids, sinks, first_agg>>

StartProbe(t) ==
  /\ t \in DOMAIN futures /\ t # 0
  /\ futures[t].st = "pending"
  /\ worker_available(futures, t)
  /\ futures' = [futures EXCEPT ![t] = running_future(futures[t].rank)]
  /\ UNCHANGED <<unch_main, unch_phase2, unch_agg, stop_ranks, lock,
                 completed_count_step1, faults, fatal_signal, empty_seen, error_seen, processed>>

\* fetch_ranking 62..73: the attempt starts with the stop-rank check; beyond the
\* stop rank it returns [] and the wrapper returns that; otherwise requests.post
\* sends the request (nothing shared is read or written between the two)
CheckStop(t) ==
  /\ t \in DOMAIN futures
  /\ futures[t].st = "running" /\ futures[t].pc = "attempt"
  /\ futures' = [futures EXCEPT ![t] =
        IF beyond_stop(futures[t].rank, ranking_type)
        THEN finished_future(futures[t].rank, Res("value", <<>>))
        ELSE [futures[t] EXCEPT !.pc = "wait"]]
  /\ UNCHANGED <<unch_main, unch_phase2, unch_agg, stop_ranks, lock,
                 completed_count_step1, faults, fatal_signal, empty_seen, error_seen, processed>>

\* what fetch_ranking hands to the wrapper for an answer it does not process
\* itself (74..84 process a 200 that is not the sentinel)
fetch_ranking_out(a) ==
  IF a.kind = "exc" THEN FuncOut("request_exc", 0, "none", a.body)
  ELSE IF a.status = 200 /\ a.code = sentinel THEN FuncOut("exit", 200, a.code, a.body)
  ELSE FuncOut("response", a.status, a.code, a.body)

\* 84: ranking_data.get("point_rankings", [])
point_rankings(a) == IF a.code = "none" THEN a.rows ELSE <<>>

\* the future after the wrapper has handled what the attempt gave it
after_wrapper(f, w) ==
  IF w.t = "exit" THEN finished_future(f.rank, Res("exit", <<>>))
  ELSE IF w.t = "raise" THEN finished_future(f.rank, Res("error", <<>>))
  ELSE IF w.t = "return_none" THEN finished_future(f.rank, Res("none", <<>>))
  ELSE [f EXCEPT !.pc = "attempt", !.retries = w.retries,
                 !.last_response = w.last_response, !.wait_time = w.wait_time]

\* fetch_ranking 73..87 and the wrapper's handling of a failed attempt
ReceiveRanking(t) ==
  /\ t \in DOMAIN futures
  /\ futures[t].st = "running" /\ futures[t].pc = "wait"
  /\ \E a \in ranking_answers(futures[t].rank) :
       LET f == futures[t]
           ok == a.kind = "http" /\ a.status = 200 /\ a.code # sentinel
           w == retry_request(fetch_ranking_out(a), f.retries, f.last_response)
       IN /\ faults' = IF is_fault(a) THEN faults + 1 ELSE faults
          /\ IF ok
             THEN /\ futures' = [futures EXCEPT ![t] =
                        [f EXCEPT !.player_list = point_rankings(a),
                                  !.pc = IF point_rankings(a) = <<>>
                                         THEN "stop_cs" ELSE "count_cs"]]
                  /\ empty_seen' = IF point_rankings(a) = <<>>
                        THEN [empty_seen EXCEPT ![ranking_type] = @ \cup {f.rank}]
                        ELSE empty_seen
                  /\ error_seen' = IF a.code # "none"
                        THEN [error_seen EXCEPT ![ranking_type] = @ \cup {t}]
                        ELSE error_seen
                  /\ processed' = [processed EXCEPT ![1] = @ + 1]
                  /\ UNCHANGED fatal_signal
             ELSE /\ futures' = [futures EXCEPT ![t] = after_wrapper(f, w)]
                  /\ fatal_signal' = (fatal_signal \/ w.t = "exit")
                  /\ UNCHANGED <<empty_seen, error_seen, processed>>
  /\ UNCHANGED <<unch_main, unch_phase2, unch_agg, stop_ranks, lock,
                 completed_count_step1>>

\* 88..89: with self.lock: if target_rank < self.stop_ranks[ranking_type]
EnterStopCS(t) ==
  /\ t \in DOMAIN futures
  /\ futures[t].st = "running" /\ futures[t].pc = "stop_cs"
  /\ lock_free
  /\ IF lowers_stop(futures[t].rank, ranking_type)
     THEN /\ lock' = {<<1, t>>}
          /\ futures' = [futures EXCEPT ![t].pc = "stop_write"]
     ELSE /\ lock' = lock
          /\ futures' = [futures EXCEPT ![t].pc = "count_cs"]
  /\ UNCHANGED <<unch_main, unch_phase2, unch_agg, stop_ranks,
                 completed_count_step1, faults, fatal_signal, empty_seen, error_seen, processed>>

\* 90..91: the write, and the end of the with block
WriteStop(t) ==
  /\ t \in DOMAIN futures
  /\ futures[t].st = "running" /\ futures[t].pc = "stop_write"
  /\ stop_ranks' = [stop_ranks EXCEPT ![ranking_type] = {futures[t].rank}]
  /\ lock' = lock \ {<<1, t>>}
  /\ futures' = [futures EXCEPT ![t].pc = "count_cs"]
  /\ UNCHANGED <<unch_main, unch_phase2, unch_agg,
                 completed_count_step1, faults, fatal_signal, empty_seen, error_seen, processed>>

\* 93..94: with self.lock: read of self.completed_count_step1
EnterCountCS(t) ==
  /\ t \in DOMAIN futures
  /\ futures[t].st = "running" /\ futures[t].pc = "count_cs"
  /\ lock_free
  /\ lock' = {<<1, t>>}
  /\ futures' = [futures EXCEPT ![t].pc = "count_write", ![t].cnt = completed_count_step1]
  /\ UNCHANGED <<unch_main, unch_phase2, unch_agg, stop_ranks,
                 completed_count_step1, faults, fatal_signal, empty_seen, error_seen, processed>>

\* 94..96: the write of the counter, the end of the with block, return player_list
WriteCount(t) ==
  /\ t \in DOMAIN futures
  /\ futures[t].st = "running" /\ futures[t].pc = "count_write"
  /\ completed_count_step1' = futures[t].cnt + 1
  /\ lock' = lock \ {<<1, t>>}
  /\ futures' = [futures EXCEPT ![t] =
        finished_future(futures[t].rank, Res("value", futures[t].player_list))]
  /\ UNCHANGED <<unch_main, unch_phase2, unch_agg, stop_ranks,
                 faults, fatal_signal, empty_seen, error_seen, processed>>

\* ------------------------------------------------- main thread, phase 1
\* an EntitySummary built from a raw entry (multicatch.py 281..285,
\* catchgraderank.py 253..256)
summary(player) ==
  [player_id |-> player.player_id, rank |-> player.rank, point |-> player.point]

summaries(rows) == [i \in 1..Len(rows) |-> summary(rows[i])]

\* mutant: the grade collector appends without looking at the seen set
append_unique_unchecked(list, seen, rows) == [list |-> list \o summaries(rows), seen |-> seen]

\* catchgraderank.py 248..259: append the entries whose id was not seen
RECURSIVE append_unique(_, _, _)
append_unique(list, seen, rows) ==
  IF rows = <<>> THEN [list |-> list, seen |-> seen]
  ELSE LET player == Head(rows)
       IN IF player.player_id \notin seen
          THEN append_unique(Append(list, summary(player)),
                             seen \cup {player.player_id}, Tail(rows))
          ELSE append_unique(list, seen, Tail(rows))

\* multicatch.py 280..285: append every entry
append_all(list, rows) == list \o summaries(rows)

\* history: the summaries that were the first aggregated for their id
RECURSIVE record_first(_, _)
record_first(firsts, rows) ==
  IF rows = <<>> THEN firsts
  ELSE record_first(
         IF \E e \in firsts : e.player_id = Head(rows).player_id
         THEN firsts ELSE firsts \cup {summary(Head(rows))},
         Tail(rows))

\* str.lower() of the operator's input
lower(text) == IF text = "Y" THEN "y" ELSE IF text = "N" THEN "n" ELSE text

\* what the operator may type
inputs == {"y", "Y", "n", "N", "x"}

\* mutant: the answer is not looked at
declines_never(text) == FALSE

\* input("...(y/n)? ").lower() != 'y' (multicatch.py 229, catchgraderank.py 203)
declines(text) == lower(text) # "y"

\* perform_login (multicatch.py 226..228, catchgraderank.py 200..202): on
\* success the test request follows, fetch_ranking(1, self.ranking_day_type, 0, 1)
\* on the main thread; on failure the operator is asked
Login ==
  /\ pc = "login"
  /\ \E login_success \in BOOLEAN :
       IF login_success
       THEN /\ pc' = "liveness"
            /\ futures' = (0 :> running_future(1))
       ELSE /\ pc' = "login_prompt"
            /\ UNCHANGED futures
  /\ UNCHANGED <<unch_cfg, type_idx,
                 unch_phase2, unch_agg, stop_ranks, lock, completed_count_step1,
                 faults, fatal_signal, empty_seen, error_seen, processed>>

\* input("continue (y/n)? ") returns what the operator typed
AnswerLoginPrompt ==
  /\ pc = "login_prompt"
  /\ \E text \in inputs : answer' = text
  /\ pc' = "login_answered"
  /\ UNCHANGED <<unch_conf, wrapper, profile, type_idx, futures,
                 unch_phase2, unch_agg, stop_ranks, lock, completed_count_step1,
                 faults, fatal_signal, empty_seen, error_seen, processed>>

\* multicatch.py 229..231, catchgraderank.py 203..205: return unless the answer
\* is y; the answer is a temporary
AfterLoginPrompt ==
  /\ pc = "login_answered"
  /\ IF declines(answer)
     THEN /\ pc' = "done"
          /\ UNCHANGED futures
     ELSE /\ pc' = "liveness"
          /\ futures' = (0 :> running_future(1))
  /\ answer' = ""
  /\ UNCHANGED <<unch_conf, wrapper, profile, type_idx,
                 unch_phase2, unch_agg, stop_ranks, lock, completed_count_step1,
                 faults, fatal_signal, empty_seen, error_seen, processed>>

\* mutant: the grade collector goes on after a test request without data
liveness_hard_abort_never(c, test_result) == FALSE

\* catchgraderank.py 211..214: if not test_result: return; multicatch.py
\* 237..238 only prints a warning
liveness_hard_abort(c, test_result) == c = "grade" /\ ~test_result

\* mutant: the harvest begins while the test request is still under way
LivenessDone_nowait ==
  /\ pc = "liveness"
  /\ pc' = "harvest_submit"
  /\ futures' = <<>>
  /\ UNCHANGED <<unch_cfg, type_idx,
                 unch_phase2, unch_agg, stop_ranks, lock, completed_count_step1,
                 faults, fatal_signal, empty_seen, error_seen, processed>>

\* the test request has returned (multicatch.py 236..246, catchgraderank.py 210..222)
LivenessDone ==
  /\ pc = "liveness"
  /\ futures[0].st = "finished"
  /\ LET res == futures[0].res
         test_result == res.kind = "value" /\ res.rows # <<>>
     IN pc' = IF res.kind = "exit" THEN "aborted"
              ELSE IF liveness_hard_abort(collector, test_result) THEN "done"
              ELSE "harvest_submit"
  /\ futures' = <<>>
  /\ UNCHANGED <<unch_cfg, type_idx,
                 unch_phase2, unch_agg, stop_ranks, lock, completed_count_step1,
                 faults, fatal_signal, empty_seen, error_seen, processed>>

\* executor.submit for every rank of sorted(self.target_ranks), idx from 1
SubmitProbes ==
  /\ pc = "harvest_submit"
  /\ LET sorted_ranks == sorted(target_ranks)
     IN futures' = [idx \in 1..Len(sorted_ranks) |-> pending_future(sorted_ranks[idx])]
  /\ yielded' = {}
  /\ pc' = "harvest_wait"
  /\ UNCHANGED <<unch_cfg, type_idx,
                 unch_phase2, all_players_basic_info, unique_player_ids, sinks,
                 first_agg, stop_ranks, lock, completed_count_step1,
                 faults, fatal_signal, empty_seen, error_seen, processed>>

\* mutant: a probe in execution beyond the stop rank is stopped as well
cancel_beyond_interrupting(fs, rt) ==
  [t \in DOMAIN fs |->
     IF fs[t].st \in {"pending", "running"} /\ beyond_stop(fs[t].rank, rt)
     THEN cancelled_future(fs[t].rank) ELSE fs[t]]

\* 273..275: cancel() succeeds on a future no worker has taken
cancel_beyond(fs, rt) ==
  [t \in DOMAIN fs |->
     IF fs[t].st = "pending" /\ beyond_stop(fs[t].rank, rt)
     THEN cancelled_future(fs[t].rank) ELSE fs[t]]

\* mutant: a completed future beyond the stop rank is asked for its result too
skip_result_never(f, rt) == FALSE

\* mutant: the result is read before the comparison, which then only spares
\* the futures that had one
skip_result_after_read(f, rt) == f.st = "finished" /\ beyond_stop(f.rank, rt)

\* 271: the completed future is beyond the stop rank: its result is not read
skip_result(f, rt) == beyond_stop(f.rank, rt)

\* one iteration of the as_completed loop (multicatch.py 269..285,
\* catchgraderank.py 237..259)
HandleCompleted(t) ==
  /\ pc = "harvest_wait"
  /\ t \in DOMAIN futures /\ t \notin yielded
  /\ futures[t].st \in {"finished", "cancelled"}
  /\ yielded' = yielded \cup {t}
  /\ LET f == futures[t]
         rt == ranking_type
     IN IF skip_result(f, rt)
        THEN /\ futures' = cancel_beyond(futures, rt)
             /\ UNCHANGED <<pc, all_players_basic_info, unique_player_ids, first_agg>>
        ELSE IF f.st = "cancelled" \/ f.res.kind = "error"
        THEN \* future.result() raises CancelledError (or the stored error)
             /\ pc' = "crashing"
             /\ UNCHANGED <<futures, all_players_basic_info, unique_player_ids, first_agg>>
        ELSE IF f.res.kind = "exit"
        THEN \* future.result() re-raises SystemExit on the main thread
             /\ pc' = "exiting"
             /\ UNCHANGED <<futures, all_players_basic_info, unique_player_ids, first_agg>>
        ELSE LET rows == f.res.rows
                 g == append_unique(all_players_basic_info[rt], unique_player_ids, rows)
             IN /\ all_players_basic_info' = [all_players_basic_info EXCEPT ![rt] =
                      IF collector = "grade" THEN g.list ELSE append_all(@, rows)]
                /\ unique_player_ids' =
                      IF collector = "grade" THEN g.seen ELSE unique_player_ids
                /\ first_agg' = [first_agg EXCEPT ![rt] = record_first(@, rows)]
                /\ UNCHANGED <<pc, futures>>
  /\ UNCHANGED <<unch_cfg, type_idx,
                 unch_phase2, sinks, stop_ranks, lock, completed_count_step1,
                 faults, fatal_signal, empty_seen, error_seen, processed>>

\* the with block of the executor ends: shutdown(wait=True); the next stream
\* follows, or the harvest is over
StreamDone ==
  /\ pc = "harvest_wait"
  /\ yielded = DOMAIN futures
  /\ \A t \in DOMAIN futures : futures[t].st \in {"finished", "cancelled"}
  /\ IF type_idx < Len(types_to_fetch)
     THEN /\ type_idx' = type_idx + 1
          /\ pc' = "harvest_submit"
     ELSE /\ pc' = "save_ranking"
          /\ UNCHANGED type_idx
  /\ futures' = <<>>
  /\ yielded' = {}
  /\ UNCHANGED <<unch_cfg,
                 unch_phase2, all_players_basic_info, unique_player_ids, sinks,
                 first_agg, stop_ranks, lock, completed_count_step1,
                 faults, fatal_signal, empty_seen, error_seen, processed>>

\* an exception leaves a with block of an executor: __exit__ waits until every
\* submitted work item has run (shutdown(wait=True) cancels nothing)
PoolDrained ==
  /\ pc \in {"exiting", "crashing"}
  /\ \A t \in DOMAIN futures : futures[t].st \in {"finished", "cancelled"}
  /\ \A t \in DOMAIN pfutures : pfutures[t].st \in {"finished", "cancelled"}
  /\ pc' = IF pc = "exiting" THEN "aborted" ELSE "crashed"
  /\ UNCHANGED <<unch_cfg, type_idx,
                 unch_phase2, unch_agg, futures, stop_ranks, lock,
                 completed_count_step1, faults, fatal_signal, empty_seen, error_seen, processed>>

\* --------------------------------------------------------- saving phase 1
\* DataFrame.sort_values(by='rank') of the records that have a rank column
RECURSIVE insert_by_rank(_, _)
insert_by_rank(sortedSeq, e) ==
  IF sortedSeq = <<>> THEN <<e>>
  ELSE IF e.rank < Head(sortedSeq).rank THEN <<e>> \o sortedSeq
  ELSE <<Head(sortedSeq)>> \o insert_by_rank(Tail(sortedSeq), e)

\* mutant: the records stay in the order of their arrival
sort_values_unsorted(list) == list

RECURSIVE sort_values(_)
sort_values(list) ==
  IF list = <<>> THEN <<>>
  ELSE insert_by_rank(sort_values(SubSeq(list, 1, Len(list) - 1)), list[Len(list)])

Sink(name, data) == [name |-> name, data |-> data]

\* multicatch.py 296..301
has_data == \E i \in 1..Len(types_to_fetch) : all_players_basic_info[types_to_fetch[i]] # <<>>

\* total_players_info (multicatch.py 318) / players_basic_info (catchgraderank.py)
players_for_details == all_players_basic_info[types_to_fetch[1]]

\* multicatch.py 287..315: the sheets are written as harvested; nothing
\* harvested in any stream: return
SaveRankingCache ==
  /\ pc = "save_ranking" /\ collector = "ranking"
  /\ IF has_data
     THEN /\ sinks' = Append(sinks, Sink("ranking_cache",
                 [i \in 1..Len(types_to_fetch) |-> all_players_basic_info[types_to_fetch[i]]]))
          /\ pc' = "detail_submit"
     ELSE /\ pc' = "done"
          /\ UNCHANGED sinks
  /\ UNCHANGED <<unch_cfg, type_idx,
                 unch_phase2, yielded, all_players_basic_info, unique_player_ids,
                 first_agg, futures, stop_ranks, lock, completed_count_step1,
                 faults, fatal_signal, empty_seen, error_seen, processed>>

\* catchgraderank.py 261..278: df1.sort_values(by='rank') comes before the
\* emptiness test; a DataFrame built from [] has no column 'rank': KeyError
SaveGradeCache ==
  /\ pc = "save_ranking" /\ collector = "grade"
  /\ IF players_for_details = <<>>
     THEN /\ pc' = "crashed"
          /\ UNCHANGED sinks
     ELSE /\ sinks' = Append(sinks, Sink("grade_cache", <<sort_values(players_for_details)>>))
          /\ pc' = "detail_submit"
  /\ UNCHANGED <<unch_cfg, type_idx,
                 unch_phase2, yielded, all_players_basic_info, unique_player_ids,
                 first_agg, futures, stop_ranks, lock, completed_count_step1,
                 faults, fatal_signal, empty_seen, error_seen, processed>>

\* ------------------------------------------------------- futures, phase 2
\* a DetailRecord, or the API error object (kind "error", which has no
\* player_id, rank or point); sib: sibling stream -> {} (None) or {[point, rank]}
Detail(kind, player_id, rank, point, sib) ==
  [kind |-> kind, player_id |-> player_id, rank |-> rank, point |-> point, sib |-> sib]

no_detail == Detail("none", 0, 0, 0, <<>>)
error_object == Detail("error", 0, 0, 0, <<>>)

\* mutant: rank and point are not taken from the ranking entry
player_data_refetched(player_info) == Detail("profile", player_info.player_id, 0, 0, <<>>)

\* utils.py 251..264: player_id, and rank and point of the ranking entry
player_data(player_info) ==
  Detail("profile", player_info.player_id, player_info.rank, player_info.point, <<>>)

PRes(kind, rec) == [kind |-> kind, rec |-> rec]

PFut(player, st, wpc, retries, last_response, wait_time, rec, cnt, res) ==
  [player |-> player, st |-> st, pc |-> wpc, retries |-> retries,
   last_response |-> last_response, wait_time |-> wait_time,
   rec |-> rec, cnt |-> cnt, res |-> res]

pending_pfuture(player) ==
  PFut(player, "pending", "-", 0, "none", 0, no_detail, 0, PRes("unset", no_detail))
running_pfuture(player) ==
  PFut(player, "running", "post", 0, "none", 0, no_detail, 0, PRes("unset", no_detail))
finished_pfuture(player, res) ==
  PFut(player, "finished", "-", 0, "none", 0, no_detail, 0, res)

profile_answers ==
  {page_answer(<<>>)} \cup faults_left

\* get_player_profile (utils.py 139..149): a 200 is handed over as the parsed
\* body, anything else as the Response
get_player_profile_out(a) ==
  IF a.kind = "exc" THEN FuncOut("request_exc", 0, "none", a.body)
  ELSE IF a.status = 200 THEN FuncOut("value", 200, a.code, a.body)
  ELSE FuncOut("response", a.status, a.code, a.body)

StartDetail(i) ==
  /\ i \in DOMAIN pfutures
  /\ pfutures[i].st = "pending"
  /\ worker_available(pfutures, i)
  /\ pfutures' = [pfutures EXCEPT ![i] = running_pfuture(pfutures[i].player)]
  /\ UNCHANGED <<unch_main, unch_agg, futures, stop_ranks, lock, completed_count_step1,
                 completed_count_step2, pyielded, data_list, faults, fatal_signal,
                 empty_seen, error_seen, processed>>

\* utils.py 142: requests.post sends the request
PostProfile(i) ==
  /\ i \in DOMAIN pfutures
  /\ pfutures[i].st = "running" /\ pfutures[i].pc = "post"
  /\ pfutures' = [pfutures EXCEPT ![i].pc = "wait"]
  /\ UNCHANGED <<unch_main, unch_agg, futures, stop_ranks, lock, completed_count_step1,
                 completed_count_step2, pyielded, data_list, faults, fatal_signal,
                 empty_seen, error_seen, processed>>

\* the answer, the wrapper, fetch_player_profile (utils.py 239..295) and
\* fetch_profile up to the lock (multicatch.py 102..111, catchgraderank.py 182..191)
ReceiveProfile(i) ==
  /\ i \in DOMAIN pfutures
  /\ pfutures[i].st = "running" /\ pfutures[i].pc = "wait"
  /\ \E a \in profile_answers :
       LET f == pfutures[i]
           r == get_player_profile_out(a)
           w == retry_request(r, f.retries, f.last_response)
       IN /\ faults' = IF is_fault(a) THEN faults + 1 ELSE faults
          /\ pfutures' = [pfutures EXCEPT ![i] =
               IF w.t = "return" /\ r.code = sentinel
               THEN \* fetch_profile: sys.exit(1), in the worker
                    finished_pfuture(f.player, PRes("exit", no_detail))
               ELSE IF w.t = "return"
               THEN [f EXCEPT !.pc = "count_cs",
                              !.rec = IF r.code = "none" THEN player_data(f.player)
                                      ELSE error_object]
               ELSE IF w.t = "exit"
               THEN finished_pfuture(f.player, PRes("exit", no_detail))
               ELSE IF w.t = "raise"
               THEN finished_pfuture(f.player, PRes("error", no_detail))
               ELSE IF w.t = "return_none"
               THEN finished_pfuture(f.player, PRes("none", no_detail))
               ELSE [f EXCEPT !.pc = "post", !.retries = w.retries,
                              !.last_response = w.last_response,
                              !.wait_time = w.wait_time]]
          /\ fatal_signal' = (fatal_signal \/ w.t = "exit"
                                \/ (w.t = "return" /\ r.code = sentinel))
          /\ processed' = IF w.t = "return" /\ r.code # sentinel
                          THEN [processed EXCEPT ![2] = @ + 1] ELSE processed
  /\ UNCHANGED <<unch_main, unch_agg, futures, stop_ranks, lock, completed_count_step1,
                 completed_count_step2, pyielded, data_list, empty_seen, error_seen>>

\* fetch_profile 112..113: with self.lock: read of self.completed_count_step2
EnterCountCS2(i) ==
  /\ i \in DOMAIN pfutures
  /\ pfutures[i].st = "running" /\ pfutures[i].pc = "count_cs"
  /\ lock_free
  /\ lock' = {<<2, i>>}
  /\ pfutures' = [pfutures EXCEPT ![i].pc = "count_write", ![i].cnt = completed_count_step2]
  /\ UNCHANGED <<unch_main, unch_agg, futures, stop_ranks, completed_count_step1,
                 completed_count_step2, pyielded, data_list, faults, fatal_signal,
                 empty_seen, error_seen, processed>>

\* 113..115: the write of the counter, the end of the with block, return result
WriteCount2(i) ==
  /\ i \in DOMAIN pfutures
  /\ pfutures[i].st = "running" /\ pfutures[i].pc = "count_write"
  /\ completed_count_step2' = pfutures[i].cnt + 1
  /\ lock' = lock \ {<<2, i>>}
  /\ pfutures' = [pfutures EXCEPT ![i] =
        finished_pfuture(pfutures[i].player, PRes("value", pfutures[i].rec))]
  /\ UNCHANGED <<unch_main, unch_agg, futures, stop_ranks, completed_count_step1,
                 pyielded, data_list, faults, fatal_signal, empty_seen, error_seen, processed>>

\* ------------------------------------------------- main thread, phase 2
is_previous_day == collector = "ranking" /\ ranking_day_type = 20

SubmitDetails ==
  /\ pc = "detail_submit"
  /\ pfutures' = [idx \in 1..Len(players_for_details) |->
                     pending_pfuture(players_for_details[idx])]
  /\ pyielded' = {}
  /\ data_list' = <<>>
  /\ pc' = "detail_wait"
  /\ UNCHANGED <<unch_cfg, type_idx,
                 unch_agg, futures, stop_ranks, lock, completed_count_step1,
                 completed_count_step2, faults, fatal_signal, empty_seen, error_seen, processed>>

\* mutant: an id that is not in the map gets zeros
player_map_zero(list, player_id) ==
  IF \E i \in 1..Len(list) : list[i].player_id = player_id
  THEN LET i == CHOOSE i \in 1..Len(list) :
                  /\ list[i].player_id = player_id
                  /\ \A j \in (i + 1)..Len(list) : list[j].player_id # player_id
       IN {[point |-> list[i].point, rank |-> list[i].rank]}
  ELSE {[point |-> 0, rank |-> 0]}

\* player_maps[rank_type] (multicatch.py 324..330): a dict comprehension keeps,
\* for an id that occurs twice, the later entry
RECURSIVE player_map(_, _)
player_map(list, player_id) ==
  IF list = <<>> THEN {}
  ELSE LET last == list[Len(list)]
       IN IF last.player_id = player_id
          THEN {[point |-> last.point, rank |-> last.rank]}
          ELSE player_map(SubSeq(list, 1, Len(list) - 1), player_id)

\* multicatch.py 344..351
sibling_fields(player_id) ==
  [k \in 1..Len(sibling_types) |->
     player_map(all_players_basic_info[sibling_types[k]], player_id)]

\* one iteration of the as_completed loop of phase 2 (multicatch.py 338..352,
\* catchgraderank.py 287..298)
HandleDetail(i) ==
  /\ pc = "detail_wait"
  /\ i \in DOMAIN pfutures /\ i \notin pyielded
  /\ pfutures[i].st = "finished"
  /\ pyielded' = pyielded \cup {i}
  /\ LET res == pfutures[i].res
     IN IF res.kind = "exit"
        THEN /\ pc' = "exiting" /\ UNCHANGED data_list
        ELSE IF res.kind = "error"
        THEN /\ pc' = "crashing" /\ UNCHANGED data_list
        ELSE IF res.kind = "none"
        THEN UNCHANGED <<pc, data_list>>
        ELSE IF is_previous_day
        THEN /\ data_list' = Append(data_list, res.rec)
             /\ UNCHANGED pc
        ELSE IF res.rec.kind = "error"
        THEN \* result["player_id"]: KeyError
             /\ pc' = "crashing" /\ UNCHANGED data_list
        ELSE /\ data_list' = Append(data_list,
                   IF collector = "ranking"
                   THEN [res.rec EXCEPT !.sib = sibling_fields(res.rec.player_id)]
                   ELSE res.rec)
             /\ UNCHANGED pc
  /\ UNCHANGED <<unch_cfg, type_idx,
                 unch_agg, futures, pfutures, stop_ranks, lock, completed_count_step1,
                 completed_count_step2, faults, fatal_signal, empty_seen, error_seen, processed>>

SelectSeq2(list, kind) == SelectSeq(list, LAMBDA e : e.kind = kind)

\* multicatch.py 354..421, catchgraderank.py 300..312: sort_values(by='rank')
\* raises KeyError when no record has a rank column; rows without a rank go last
SaveFull ==
  /\ pc = "detail_wait"
  /\ pyielded = DOMAIN pfutures
  /\ LET profiles == SelectSeq2(data_list, "profile")
         others == SelectSeq2(data_list, "error")
     IN IF profiles = <<>>
        THEN /\ pc' = "crashed"
             /\ UNCHANGED sinks
        ELSE /\ sinks' = Append(sinks,
                   Sink(IF collector = "grade" THEN "grade_full" ELSE "ranking_full",
                        <<sort_values(profiles) \o others>>))
             /\ pc' = "done"
  /\ pfutures' = <<>>
  /\ pyielded' = {}
  /\ UNCHANGED <<unch_cfg, type_idx,
                 yielded, all_players_basic_info, unique_player_ids, first_agg,
                 data_list, futures, stop_ranks, lock, completed_count_step1,
                 completed_count_step2, faults, fatal_signal, empty_seen, error_seen, processed>>

\* --------------------------------------- the aggregates of a DetailRecord
\* keys of CHARACTER_NAMES (config.py 330..342)
CHARACTER_NAMES == {1031, 1032, 1033, 1021, 1022, 1023, 1041, 1042, 1043, 1051, 1052}

\* the ids left out of the second aggregate (utils.py 286)
excluded_ids == {1051, 1052}

\* character ids a response may name: a known one, the excluded ones, an
\* unknown one
fan_ids == {1021, 1051, 1052, 9999}

fan_infos == [character_id : fan_ids, d_season_fan_level : 0..MaxLevel]

fan_level_lists == UNION {[1..n -> fan_infos] : n \in 0..MaxFanInfos}

\* utils.py 271..278: every known character starts at 0; an entry of the
\* response sets the level of its character when the character is known
RECURSIVE character_levels(_)
character_levels(fan_level_list) ==
  IF fan_level_list = <<>> THEN [character_id \in CHARACTER_NAMES |-> 0]
  ELSE LET fan_info == fan_level_list[Len(fan_level_list)]
           levels == character_levels(SubSeq(fan_level_list, 1, Len(fan_level_list) - 1))
       IN IF fan_info.character_id \in CHARACTER_NAMES
          THEN [levels EXCEPT ![fan_info.character_id] = fan_info.d_season_fan_level]
          ELSE levels

\* sum(level for char_id, level in ... if char_id in ids)
RECURSIVE sum_values(_, _)
sum_values(levels, ids) ==
  IF ids = {} THEN 0
  ELSE LET character_id == CHOOSE c \in ids : TRUE
       IN levels[character_id] + sum_values(levels, ids \ {character_id})

\* utils.py 281
total_level(levels) == sum_values(levels, CHARACTER_NAMES)

\* mutant: nothing is left out of the second aggregate
total_104_level_unfiltered(levels) == sum_values(levels, CHARACTER_NAMES)

\* utils.py 284
total_104_level(levels) == sum_values(levels, CHARACTER_NAMES \ excluded_ids)

no_profile == [pc |-> "idle"]

\* utils.py 247..292 for one response
BuildProfile ==
  /\ profile.pc = "idle"
  /\ \E fan_level_list \in fan_level_lists :
       LET levels == character_levels(fan_level_list)
       IN profile' = [pc |-> "built", fan_level_list |-> fan_level_list,
                      levels |-> levels, total |-> total_level(levels),
                      total_104 |-> total_104_level(levels)]
  /\ UNCHANGED <<unch_conf, answer, wrapper, pc, type_idx, unch_phase2, unch_agg,
                 futures, stop_ranks, lock, completed_count_step1, faults,
                 fatal_signal, empty_seen, error_seen, processed>>

\* ------------------------------------- a call of generate_rank_targets
\* the values of target_count of the call
TargetCounts == (0 - 1)..MaxTargetCount

no_rank_targets == [pc |-> "idle"]

\* rank_utils.py 5..19 for one target_count
GenerateRankTargets ==
  /\ rank_targets.pc = "idle"
  /\ \E target_count \in TargetCounts :
       rank_targets' = [pc |-> "returned", target_count |-> target_count,
                        ranks |-> generate_rank_targets(target_count)]
  /\ UNCHANGED <<collector, ranking_day_type, sibling_count, scenario, target_ranks,
                 answer, wrapper, profile, pc, type_idx, unch_phase2, unch_agg,
                 futures, stop_ranks, lock, completed_count_step1, faults,
                 fatal_signal, empty_seen, error_seen, processed>>

\* ------------------------------------------- a call through retry_request
\* utils.py 29..31: last_error = None, last_response = None, retries = 0
WrapperEnter ==
  /\ wrapper.pc = "idle"
  /\ wrapper' = [wrapper EXCEPT !.pc = "attempt"]
  /\ UNCHANGED <<unch_conf, answer, profile, pc, type_idx, unch_phase2, unch_agg, futures,
                 stop_ranks, lock, completed_count_step1, faults, fatal_signal,
                 empty_seen, error_seen, processed>>

\* utils.py 32..123 and 127..132: the loop test, func(*args, **kwargs) and what
\* the wrapper does with the outcome, up to the sleep; 136: return None when
\* the loop test fails
WrapperAttempt ==
  /\ wrapper.pc = "attempt"
  /\ IF wrapper.retries < max_retries
     THEN \E r \in func_outs :
            LET w == retry_request(r, wrapper.retries, wrapper.last_response)
                calls == Append(wrapper.calls, r)
            IN wrapper' =
                 IF w.t = "retry"
                 THEN Wrapper("sleep", w.retries, w.last_response, w.wait_time,
                              calls, wrapper.sleeps, "-")
                 ELSE Wrapper("out", w.retries, w.last_response, 0,
                              calls, wrapper.sleeps, w.t)
     ELSE wrapper' = [wrapper EXCEPT !.pc = "out", !.out = "return_none"]
  /\ UNCHANGED <<unch_conf, answer, profile, pc, type_idx, unch_phase2, unch_agg, futures,
                 stop_ranks, lock, completed_count_step1, faults, fatal_signal,
                 empty_seen, error_seen, processed>>

\* utils.py 126 and 135: time.sleep(wait_time), then the next iteration
WrapperSleep ==
  /\ wrapper.pc = "sleep"
  /\ wrapper' = [wrapper EXCEPT !.pc = "attempt",
                                !.sleeps = Append(@, wrapper.wait_time)]
  /\ UNCHANGED <<unch_conf, answer, profile, pc, type_idx, unch_phase2, unch_agg, futures,
                 stop_ranks, lock, completed_count_step1, faults, fatal_signal,
                 empty_seen, error_seen, processed>>

\* ------------------------------------------------------- specifications
InitWith(c, day, nsib, scen, target_count) ==
  /\ collector = c
  /\ ranking_day_type = day
  /\ sibling_count = nsib
  /\ scenario = scen
  /\ target_ranks = SeqToSet(generate_rank_targets(target_count))
  /\ pc = "login"
  /\ type_idx = 1
  /\ stop_ranks = [rt \in ranking_types(c, day) |-> inf]
  /\ lock = {}
  /\ completed_count_step1 = 0
  /\ completed_count_step2 = 0
  /\ futures = <<>>
  /\ yielded = {}
  /\ all_players_basic_info = [rt \in ranking_types(c, day) |-> <<>>]
  /\ unique_player_ids = {}
  /\ pfutures = <<>>
  /\ pyielded = {}
  /\ data_list = <<>>
  /\ sinks = <<>>
  /\ faults = 0
  /\ fatal_signal = FALSE
  /\ empty_seen = [rt \in ranking_types(c, day) |-> {}]
  /\ error_seen = [rt \in ranking_types(c, day) |-> {}]
  /\ processed = <<0, 0>>
  /\ first_agg = [rt \in ranking_types(c, day) |-> {}]
  /\ answer = ""
  /\ wrapper = idle_wrapper
  /\ profile = no_profile
  /\ rank_targets = no_rank_targets

\* the harvest: one stream with three offsets, or the total stream and the
\* first siblings with two
InitHarvest ==
  \/ InitWith("grade", 21, 0, "any", TargetRankBound)
  \/ InitWith("ranking", 20, 0, "any", TargetRankBound)
  \/ InitWith("ranking", 21, NumSiblings, "any", SiblingTargetRankBound)

\* the whole pipeline: two offsets, or TEST_MODE of config.py (target_ranks = [1])
\* with all the streams
Init ==
  \/ InitWith("grade", 21, 0, "any", SiblingTargetRankBound)
  \/ InitWith("ranking", 20, 0, "any", SiblingTargetRankBound)
  \/ InitWith("ranking", 21, Len(sibling_types), "any", 1)

\* scenario A: offsets 1, 27, 53
InitA ==
  \/ InitWith("grade", 21, 0, "A", 2 * STEP + 1)
  \/ InitWith("ranking", 20, 0, "A", 2 * STEP + 1)
  \/ InitWith("ranking", 21, NumSiblings, "A", 2 * STEP + 1)

Tasks == 0..Len(generate_rank_targets(TargetRankBound))
DetailTasks == 1..(2 * STEP)

HarvestWorker ==
  \/ \E t \in Tasks : StartProbe(t)
  \/ \E t \in Tasks : CheckStop(t)
  \/ \E t \in Tasks : ReceiveRanking(t)
  \/ \E t \in Tasks : EnterStopCS(t)
  \/ \E t \in Tasks : WriteStop(t)
  \/ \E t \in Tasks : EnterCountCS(t)
  \/ \E t \in Tasks : WriteCount(t)

HarvestLoop ==
  \/ Login
  \/ AnswerLoginPrompt
  \/ AfterLoginPrompt
  \/ LivenessDone
  \/ SubmitProbes
  \/ \E t \in Tasks : HandleCompleted(t)
  \/ StreamDone
  \/ SaveRankingCache
  \/ SaveGradeCache

HarvestMain == HarvestLoop \/ PoolDrained

DetailWorker ==
  \/ \E i \in DetailTasks : StartDetail(i)
  \/ \E i \in DetailTasks : PostProfile(i)
  \/ \E i \in DetailTasks : ReceiveProfile(i)
  \/ \E i \in DetailTasks : EnterCountCS2(i)
  \/ \E i \in DetailTasks : WriteCount2(i)

DetailMain ==
  \/ SubmitDetails
  \/ \E i \in DetailTasks : HandleDetail(i)
  \/ SaveFull

\* the run up to the end of phase 1 (the ranking cache is saved)
NextHarvest == HarvestWorker \/ HarvestMain

Next == HarvestWorker \/ HarvestMain \/ DetailWorker \/ DetailMain

\* the whole pipeline
Spec == Init /\ [][Next]_vars

\* phase 1 with three offsets and with sibling streams
SpecHarvest == InitHarvest /\ [][NextHarvest]_vars

\* the whole pipeline against the remote of scenario "quiet": three offsets, or
\* the total stream and the first siblings with two
InitDetail ==
  \/ InitWith("grade", 21, 0, "quiet", TargetRankBound)
  \/ InitWith("ranking", 20, 0, "quiet", TargetRankBound)
  \/ InitWith("ranking", 21, NumSiblings, "quiet", SiblingTargetRankBound)

NextDetail == HarvestWorker \/ HarvestLoop \/ DetailWorker \/ DetailMain

SpecDetail == InitDetail /\ [][NextDetail]_vars

\* the record building of fetch_player_profile, for every fan_level_list
InitProfile == InitWith("grade", 21, 0, "any", 1)

SpecProfile == InitProfile /\ [][BuildProfile]_vars

\* the calls of generate_rank_targets, for every target_count
InitTargets == InitWith("grade", 21, 0, "any", 1)

SpecTargets == InitTargets /\ [][GenerateRankTargets]_vars

\* one call through retry_request, for every sequence of outcomes of func
InitRetry == InitWith("grade", 21, 0, "any", 1)

NextRetry == WrapperEnter \/ WrapperAttempt \/ WrapperSleep

SpecRetry == InitRetry /\ [][NextRetry]_vars

\* phase 1 against a remote with at most QuietFaults transient failures, with
\* worker threads that are scheduled again and again
SpecHarvestFair ==
  InitDetail /\ [][HarvestWorker \/ HarvestLoop]_vars /\ WF_vars(HarvestWorker)

\* phase 1 against every remote, with the same scheduling
SpecHarvestAnyFair == SpecHarvest /\ WF_vars(HarvestWorker)

\* the whole pipeline when some thread that can take a step does so: every
\* transport call returns or raises, the operator answers the prompt
SpecFair == Init /\ [][Next]_vars /\ WF_vars(Next)

\* phase 1 against the remote of scenario A
SpecA == InitA /\ [][HarvestWorker \/ HarvestLoop]_vars

\* =================================================================== claims
fetched_types == SeqToSet(types_to_fetch)

AllProbesFinished == \A t \in DOMAIN futures : futures[t].st \in {"finished", "cancelled"}

\* a stop rank that replaces old: a recorded offset strictly below it
StrictlyLower(new, old) == new # inf /\ \A x \in new : LT(x, old)

\* the stop rank the empty pages seen so far call for
MinEmpty(rt) == IF empty_seen[rt] = {} THEN inf ELSE {Min(empty_seen[rt])}

\* C1: the stop rank of every stream starts unbounded, and every step that
\* changes it (a harvest probe's or the liveness probe's) replaces it with a
\* strictly smaller offset, whatever the interleaving of the probes.
C1_StopOffsetNeverIncreases ==
  /\ \A rt \in DOMAIN stop_ranks : stop_ranks[rt] = inf
  /\ [][\A rt \in DOMAIN stop_ranks :
          stop_ranks'[rt] # stop_ranks[rt]
            => StrictlyLower(stop_ranks'[rt], stop_ranks[rt])]_vars

\* a probe is about to replace a recorded stop rank with a smaller one
C1_Witness ==
  \E t \in DOMAIN futures :
    /\ futures[t].pc = "stop_write"
    /\ stop_ranks[ranking_type] # inf
    /\ LT(futures[t].rank, stop_ranks[ranking_type])

C3_NoCallBeyondStop ==
  [][\A t \in DOMAIN futures :
        ( /\ t \in DOMAIN futures'
          /\ futures[t].st = "running" /\ futures[t].pc = "attempt"
          /\ GT(futures[t].rank, stop_ranks[ranking_type])
          /\ futures'[t] # futures[t] )
        => futures'[t] = finished_future(futures[t].rank, Res("value", <<>>))]_vars

\* a probe beyond the stop rank has ended with an empty result without having
\* asked the remote
C3_Witness ==
  \E t \in DOMAIN futures :
    /\ t # 0
    /\ futures[t].st = "finished"
    /\ futures[t].res = Res("value", <<>>)
    /\ GT(futures[t].rank, stop_ranks[ranking_type])
    /\ futures[t].rank \notin empty_seen[ranking_type]

\* C4: in both collectors the harvested list of a stream holds each identity key
\* at most once, and the entry it holds is the first one aggregated for the key.
C4_HarvestDeduplicates ==
  \A rt \in DOMAIN all_players_basic_info :
    LET list == all_players_basic_info[rt]
    IN /\ \A i, j \in 1..Len(list) : list[i].player_id = list[j].player_id => i = j
       /\ \A i \in 1..Len(list) : list[i] \in first_agg[rt]

\* C5: scenario A: when the harvest of a stream is over, its stop rank is 53
\* and 52 entities have been harvested for it.
C5_ScenarioA ==
  pc \in {"save_ranking", "detail_submit"} =>
    \A rt \in fetched_types :
      /\ stop_ranks[rt] = {2 * STEP + 1}
      /\ Len(all_players_basic_info[rt]) = 2 * STEP
      /\ Cardinality({all_players_basic_info[rt][i].player_id : i \in 1..(2 * STEP)})
           = 2 * STEP

C5_Witness ==
  /\ pc = "save_ranking"
  /\ scenario = "A"
  /\ target_ranks = {1, STEP + 1, 2 * STEP + 1}
  /\ \A rt \in fetched_types : Len(all_players_basic_info[rt]) = 2 * STEP

\* C6: a probe that fails every attempt ends with None, not with an error; the
\* step that ends it changes neither a stop rank nor a harvested list, and the
\* loop that handles it adds nothing, changes no stop rank and goes on.
C6_FailedProbeContributesNothing ==
  [][\A t \in DOMAIN futures :
        t \in DOMAIN futures' =>
          /\ futures'[t].res.kind # "error"
          /\ (futures[t].res.kind = "unset" /\ futures'[t].res.kind = "none")
               => /\ futures[t].retries = max_retries - 1
                  /\ stop_ranks' = stop_ranks
                  /\ all_players_basic_info' = all_players_basic_info
          /\ (futures[t].res.kind = "none" /\ t \notin yielded /\ t \in yielded')
               => /\ stop_ranks' = stop_ranks
                  /\ all_players_basic_info' = all_players_basic_info
                  /\ pc' = "harvest_wait"]_vars

\* a probe has failed for good and was handled, another probe's entries were
\* harvested, and the harvest of the stream is over
C6_Witness ==
  /\ pc = "harvest_wait"
  /\ yielded = DOMAIN futures
  /\ \E t \in DOMAIN futures : futures[t].res.kind = "none"
  /\ all_players_basic_info[ranking_type] # <<>>

\* C7: once a probe of the pool has met the sentinel, no probe that had not
\* started is executed.
C7_AbortBeforeFurtherProbes ==
  [][\A t \in DOMAIN futures :
        (fatal_signal /\ t \in DOMAIN futures' /\ futures[t].st = "pending")
          => futures'[t].st # "running"]_vars

\* C8: a step changes the stop rank of the stream being harvested only, and a
\* probe is cancelled or ended without a request only when its offset is beyond
\* the stop rank of its own stream.
C8_StreamsIndependent ==
  [][/\ \A rt \in DOMAIN stop_ranks :
          stop_ranks'[rt] # stop_ranks[rt] => rt = ranking_type
     /\ \A t \in DOMAIN futures :
          ( /\ t \in DOMAIN futures'
            /\ \/ futures[t].st = "pending" /\ futures'[t].st = "cancelled"
               \/ futures[t].pc = "attempt" /\ futures'[t].st = "finished" )
          => GT(futures[t].rank, stop_ranks[ranking_type])]_vars

\* the first stream has converged, and a probe of the second stream is in flight
\* at an offset beyond the first stream's stop rank
C8_Witness ==
  /\ pc = "harvest_wait"
  /\ type_idx = 2
  /\ stop_ranks[types_to_fetch[1]] # inf
  /\ stop_ranks[ranking_type] = inf
  /\ \E t \in DOMAIN futures :
       /\ futures[t].pc = "wait"
       /\ GT(futures[t].rank, stop_ranks[types_to_fetch[1]])

\* C9: when phase 1 passes no entity forward, the pipeline ends in Done, no
\* detail fetch was submitted and no sink was invoked.
C9_ZeroEntitiesSkipPhase2 ==
  (pc \in {"detail_submit", "detail_wait", "done", "crashed"}
     /\ players_for_details = <<>>)
    => (pc = "done" /\ sinks = <<>> /\ pfutures = <<>>)

\* C10: after a thread has raised the fatal signal no sink is invoked and the
\* pipeline does not end in Done.
C10_FatalReachesTop ==
  [][fatal_signal => (sinks' = sinks /\ pc' # "done")]_vars

\* an attempt that failed in an ordinary way: a response that is not a 200 (or a
\* 200 whose body cannot be parsed), a transport exception, another exception, None
OrdinaryFailure(r) ==
  \/ r.t \in {"None", "exc"}
  \/ r.t = "response" /\ r.code # sentinel /\ (r.status # 200 \/ r.code = "unparsable")
  \/ r.t = "request_exc" /\ r.body # sentinel

SentinelResponse(r) == r.t = "response" /\ r.code = sentinel

\* C11: a call through retry_request invokes the wrapped function at most
\* max_retries times and lets no ordinary exception escape; when every attempt
\* failed in an ordinary way, it returns None after exactly max_retries attempts.
C11_BoundedAttempts ==
  /\ Len(wrapper.calls) <= max_retries
  /\ wrapper.out # "raise"
  /\ wrapper.out = "return_none" => Len(wrapper.calls) = max_retries
  /\ ( /\ wrapper.pc = "out"
       /\ \A i \in 1..Len(wrapper.calls) : OrdinaryFailure(wrapper.calls[i]) )
     => (wrapper.out = "return_none" /\ Len(wrapper.calls) = max_retries)

\* a failed response, a transport exception and a None result, then None is returned
C11_Witness ==
  /\ wrapper.out = "return_none"
  /\ Len(wrapper.calls) = max_retries
  /\ wrapper.calls[1].t = "response" /\ wrapper.calls[1].status = 500
  /\ wrapper.calls[2].t = "request_exc"
  /\ wrapper.calls[3].t = "None"

\* C12: the k-th sleep of a call lasts initial_delay * 2^(k-1); a sleep follows
\* every failed attempt but the last one, after which the wrapper returns
\* without sleeping.
C12_BackoffSchedule ==
  /\ \A k \in 1..Len(wrapper.sleeps) : wrapper.sleeps[k] = initial_delay * 2 ^ (k - 1)
  /\ Len(wrapper.sleeps) <= max_retries - 1
  /\ wrapper.pc = "sleep" =>
       /\ Len(wrapper.calls) < max_retries
       /\ Len(wrapper.sleeps) = Len(wrapper.calls) - 1
       /\ wrapper.wait_time = initial_delay * 2 ^ (Len(wrapper.calls) - 1)
  /\ wrapper.pc = "attempt" => Len(wrapper.sleeps) = Len(wrapper.calls)
  /\ wrapper.pc = "out" => Len(wrapper.sleeps) = Len(wrapper.calls) - 1

\* three failed attempts: the wrapper has slept 1, then 2, and has returned
C12_Witness ==
  /\ wrapper.out = "return_none"
  /\ Len(wrapper.calls) = max_retries
  /\ wrapper.sleeps = <<initial_delay, 2 * initial_delay>>

\* C13: an attempt that obtains a response whose body carries the sentinel,
\* with status 200 or not, is the last one: the wrapper exits from it, without
\* a sleep after it and without returning a value.
C13_SentinelResponseExits ==
  \A i \in 1..Len(wrapper.calls) :
    SentinelResponse(wrapper.calls[i]) =>
      /\ i = Len(wrapper.calls)
      /\ wrapper.pc = "out" /\ wrapper.out = "exit"
      /\ Len(wrapper.sleeps) = i - 1

\* the second attempt obtained a 200 that carries the sentinel, and the wrapper exited
C13_Witness ==
  /\ wrapper.out = "exit"
  /\ Len(wrapper.calls) = 2
  /\ SentinelResponse(wrapper.calls[2]) /\ wrapper.calls[2].status = 200

\* C14: an attempt that raised a transport exception whose response body
\* carries the sentinel is the last one: the wrapper exits from it.
C14_SentinelExceptionExits ==
  \A i \in 1..Len(wrapper.calls) :
    (wrapper.calls[i].t = "request_exc" /\ wrapper.calls[i].body = sentinel) =>
      (i = Len(wrapper.calls) /\ wrapper.out = "exit")

\* a detail fetch that failed for its entity: None after the retries, or the
\* API error object of a 200 answer
detail_failed(res) ==
  res.kind = "none" \/ (res.kind = "value" /\ res.rec.kind = "error")

\* C15: the fanout loop that handles a failed detail fetch adds no record for
\* it and goes on with the other fetches.
C15_DetailFailureIsolated ==
  [][\A i \in DOMAIN pfutures :
        (i \notin pyielded /\ i \in pyielded' /\ detail_failed(pfutures[i].res))
          => (data_list' = data_list /\ pc' = "detail_wait")]_vars

\* identity keys handed to the fanout
input_ids == {players_for_details[i].player_id : i \in 1..Len(players_for_details)}

\* C16: the fanout produces at most as many records as it was given entities,
\* and every record carries the identity key of one of them.
C16_OutputWithinInput ==
  /\ Len(data_list) <= Len(players_for_details)
  /\ \A j \in 1..Len(data_list) :
       data_list[j].kind = "profile" /\ data_list[j].player_id \in input_ids

\* the record lists handed to the final sink
final_lists ==
  {sinks[k].data[1] : k \in {n \in 1..Len(sinks) : sinks[n].name \in {"ranking_full", "grade_full"}}}

\* C17: no identity key occurs in two records handed to the final sink.
C17_OneRecordPerKey ==
  \A list \in final_lists :
    \A i, j \in 1..Len(list) :
      (list[i].kind = "profile" /\ list[j].kind = "profile"
         /\ list[i].player_id = list[j].player_id) => i = j

\* the test request has come back without data: an empty page, or None after
\* the retries
liveness_without_data ==
  /\ pc = "liveness"
  /\ 0 \in DOMAIN futures /\ futures[0].st = "finished"
  /\ \/ futures[0].res.kind = "none"
     \/ futures[0].res.kind = "value" /\ futures[0].res.rows = <<>>

\* C18: in RankingDataCollector a test request without data does not lead
\* straight to the harvest: the operator is asked first.
C18_RankingLivenessConfirm ==
  [][(collector = "ranking" /\ liveness_without_data) => pc' # "harvest_submit"]_vars

\* C19: in GradeRankingDataCollector a test request without data ends the
\* pipeline at once: the operator is not asked, nothing is submitted, no sink
\* is invoked, and nothing happens afterwards.
C19_GradeLivenessHardAbort ==
  [][/\ (collector = "grade" /\ liveness_without_data)
          => /\ pc' = "done"
             /\ answer' = answer
             /\ futures' = <<>> /\ pfutures' = <<>> /\ sinks' = <<>>
     /\ (collector = "grade" /\ pc = "done")
          => UNCHANGED <<pc, futures, pfutures, sinks>>]_vars

\* the grade collector has ended after a test request that met an empty page
C19_Witness ==
  /\ collector = "grade" /\ pc = "done"
  /\ stop_ranks[0] = {1}
  /\ futures = <<>> /\ pfutures = <<>> /\ sinks = <<>>

\* C20: after a failed login the operator is asked; the test request follows
\* exactly when the answer is y (in either case of the letter), and otherwise
\* the pipeline ends with nothing submitted and no sink invoked.
C20_LoginFailureConfirm ==
  [][/\ pc = "login" => pc' \in {"liveness", "login_prompt"}
     /\ pc = "login_prompt"
          => (pc' = "login_answered" /\ answer' \in inputs /\ futures' = <<>>)
     /\ pc = "login_answered"
          => /\ pc' = "liveness" <=> answer \in {"y", "Y"}
             /\ pc' # "liveness"
                  => /\ pc' = "done"
                     /\ futures' = <<>> /\ pfutures' = <<>> /\ sinks' = <<>>
     /\ pc = "done" => UNCHANGED <<pc, futures, pfutures, sinks>>]_vars

\* the operator has declined after a failed login: the pipeline is over and
\* no request was sent
C20_Witness ==
  /\ pc = "done" /\ answer = ""
  /\ futures = <<>> /\ pfutures = <<>> /\ sinks = <<>>
  /\ faults = 0 /\ completed_count_step1 = 0
  /\ \A rt \in DOMAIN stop_ranks : stop_ranks[rt] = inf

\* positions of an identity key in the harvest of a sibling stream
occurrences(k, player_id) ==
  {i \in 1..Len(all_players_basic_info[sibling_types[k]]) :
     all_players_basic_info[sibling_types[k]][i].player_id = player_id}

\* score and rank of the entry at position i of a sibling stream's harvest
sibling_entry(k, i) ==
  [point |-> all_players_basic_info[sibling_types[k]][i].point,
   rank |-> all_players_basic_info[sibling_types[k]][i].rank]

\* C21: in current-day mode every record carries, for every sibling stream,
\* the score and rank of an entry harvested for its identity key in that
\* stream, and None for both when the stream has no such entry.
C21_SiblingFields ==
  (collector = "ranking" /\ ~is_previous_day) =>
    \A j \in 1..Len(data_list) : \A k \in 1..Len(sibling_types) :
      LET occ == occurrences(k, data_list[j].player_id)
      IN /\ data_list[j].kind = "profile"
         /\ occ = {} => data_list[j].sib[k] = {}
         /\ occ # {} => \E i \in occ : data_list[j].sib[k] = {sibling_entry(k, i)}

\* a record of an entity that scored zero in the first sibling stream and does
\* not occur in the second
C21_Witness ==
  /\ collector = "ranking" /\ ~is_previous_day
  /\ \E j \in 1..Len(data_list) :
       /\ \E e \in data_list[j].sib[1] : e.point = 0
       /\ data_list[j].sib[2] = {}
       /\ occurrences(2, data_list[j].player_id) = {}

\* C22: the sibling score and rank of a record are those of the first entry
\* harvested for its identity key in the sibling stream.
C22_FirstSiblingOccurrenceWins ==
  (collector = "ranking" /\ ~is_previous_day) =>
    \A j \in 1..Len(data_list) : \A k \in 1..Len(sibling_types) :
      LET occ == occurrences(k, data_list[j].player_id)
      IN occ # {} => data_list[j].sib[k] = {sibling_entry(k, Min(occ))}

\* the level a response gives for a character: that of its last entry for the
\* character, 0 when it has none
level_in(fan_level_list, character_id) ==
  LET at == {i \in 1..Len(fan_level_list) : fan_level_list[i].character_id = character_id}
  IN IF at = {} THEN 0
     ELSE fan_level_list[CHOOSE i \in at : \A j \in at : j <= i].d_season_fan_level

\* C23: the total of a record is the sum over the known characters of the
\* level the response gives (0 when it gives none; entries for unknown
\* characters add nothing), and the second aggregate is that total minus the
\* levels of 1051 and 1052.
C23_DerivedAggregates ==
  profile.pc = "built" =>
    LET given == [c \in CHARACTER_NAMES |-> level_in(profile.fan_level_list, c)]
    IN /\ profile.total = sum_values(given, CHARACTER_NAMES)
       /\ profile.total_104 = profile.total - given[1051] - given[1052]

\* a response with a known, an excluded and an unknown character, all with a level
C23_Witness ==
  /\ profile.pc = "built"
  /\ \E i, j, k \in 1..Len(profile.fan_level_list) :
       /\ profile.fan_level_list[i].character_id = 1021
       /\ profile.fan_level_list[j].character_id = 1051
       /\ profile.fan_level_list[k].character_id = 9999
       /\ \A n \in {i, j, k} : profile.fan_level_list[n].d_season_fan_level > 0
  /\ profile.total_104 < profile.total

\* C24: the record the fanout appends for a detail fetch carries the identity
\* key, the rank and the score of the entity the fetch was submitted for.
C24_RankAndScoreCarriedOver ==
  [][\A i \in DOMAIN pfutures :
        (i \notin pyielded /\ i \in pyielded' /\ data_list' # data_list
           /\ data_list'[Len(data_list')].kind = "profile")
        => LET rec == data_list'[Len(data_list')]
           IN /\ rec.player_id = pfutures[i].player.player_id
              /\ rec.rank = pfutures[i].player.rank
              /\ rec.point = pfutures[i].player.point]_vars

\* a record of an entity that was harvested beyond the first page, with a score
C24_Witness ==
  \E j \in 1..Len(data_list) :
    /\ data_list[j].kind = "profile"
    /\ data_list[j].rank > STEP /\ data_list[j].point > 0
    /\ \E i \in 1..Len(players_for_details) :
         players_for_details[i] = summary(data_list[j])

\* C25: in a list handed to the final sink the records are in ascending order
\* of rank (rows without a rank come last).
C25_FinalListSortedByRank ==
  \A list \in final_lists :
    \A i, j \in 1..Len(list) :
      i < j => \/ list[j].kind # "profile"
               \/ list[i].kind = "profile" /\ list[i].rank <= list[j].rank

\* two records arrived in descending order of rank and were handed to the sink
C25_Witness ==
  /\ final_lists # {}
  /\ Len(data_list) = 2
  /\ data_list[1].kind = "profile" /\ data_list[2].kind = "profile"
  /\ data_list[1].rank > data_list[2].rank
  /\ \A list \in final_lists : Len(list) = 2

\* the sheets handed to the phase-1 sink, one list per stream
cache_sheets ==
  UNION {SeqToSet(sinks[k].data) :
           k \in {n \in 1..Len(sinks) : sinks[n].name \in {"ranking_cache", "grade_cache"}}}

\* C26: every list handed to the phase-1 sink is in ascending order of rank.
C26_CacheSortedByRank ==
  \A list \in cache_sheets :
    \A i, j \in 1..Len(list) : i < j => list[i].rank <= list[j].rank

\* the request units in execution: started by a worker and not finished, be it
\* in a request, between two attempts or in a backoff sleep
executing(fs) == {u \in DOMAIN fs : fs[u].st = "running"}

\* C27: in each phase at most PoolWidth request units are in execution.
C27_AtMostPoolWidthExecuting ==
  /\ Cardinality(executing(futures)) <= PoolWidth
  /\ Cardinality(executing(pfutures)) <= PoolWidth

\* the pool is full in phase 2 and a detail fetch waits, after a phase 1 with
\* more probes than workers
C27_Witness ==
  /\ Cardinality(executing(pfutures)) = PoolWidth
  /\ \E u \in DOMAIN pfutures : pfutures[u].st = "pending"
  /\ Cardinality(target_ranks) > PoolWidth

\* the pool is full in phase 1, one unit is in a retry, and a probe waits
C27_WitnessHarvest ==
  /\ Cardinality(executing(futures)) = PoolWidth
  /\ \E u \in executing(futures) : futures[u].retries > 0
  /\ \E u \in DOMAIN futures : futures[u].st = "pending"

\* one step of the pool: a probe in execution stays in execution or finishes,
\* and a probe that becomes cancelled was waiting, above the stop rank
cooperative_step ==
  \A t \in DOMAIN futures :
    /\ futures[t].st = "running"
         => /\ t \in DOMAIN futures'
            /\ futures'[t].st \in {"running", "finished"}
            /\ futures'[t].rank = futures[t].rank
    /\ (t \in DOMAIN futures' /\ futures'[t].st = "cancelled"
          /\ futures[t].st # "cancelled")
         => /\ futures[t].st = "pending"
            /\ GT(futures[t].rank, stop_of(ranking_type))

\* C28: a probe in execution is never cancelled and reaches its end, and a
\* probe is cancelled only while it waits for a worker and its offset is
\* strictly above the stop rank of its stream.
C28_CooperativeCancellation ==
  /\ [][cooperative_step]_vars
  /\ \A t \in Tasks :
       (t \in DOMAIN futures /\ futures[t].st = "running")
         ~> (t \in DOMAIN futures /\ futures[t].st = "finished")

\* the first half of C28 for the remotes with fatal and repeated failures
C28_NeverInterrupted == [][cooperative_step]_vars

\* a waiting probe was cancelled, and a probe above the stop rank that was in
\* execution has finished
C28_Witness ==
  \E t, u \in DOMAIN futures :
    /\ futures[t].st = "cancelled"
    /\ futures[u].st = "finished" /\ u \in yielded
    /\ GT(futures[u].rank, stop_of(ranking_type))

\* C29: when the main thread handles a finished probe whose offset is above
\* the stop rank of its stream at that moment, the harvested lists and the set
\* of seen identity keys stay as they are.
C29_LateProbeContributesNothing ==
  [][\A t \in DOMAIN futures :
        (t \notin yielded /\ t \in yielded' /\ futures[t].st = "finished"
           /\ GT(futures[t].rank, stop_of(ranking_type)))
        => /\ all_players_basic_info' = all_players_basic_info
           /\ unique_player_ids' = unique_player_ids]_vars

\* a probe above the stop rank came back with entities and was handled; none
\* of its entities is in the list of its stream
C29_Witness ==
  \E t \in yielded :
    /\ t \in DOMAIN futures /\ futures[t].st = "finished"
    /\ futures[t].res.kind = "value" /\ futures[t].res.rows # <<>>
    /\ GT(futures[t].rank, stop_of(ranking_type))
    /\ \A k \in 1..Len(all_players_basic_info[ranking_type]) :
         all_players_basic_info[ranking_type][k].rank # futures[t].res.rows[1].rank

\* one step seen from the shared state: the lists grow in a step of the main
\* thread that takes a finished future and moves no worker, and the stop ranks
\* and the counters change in the step of the worker that holds the lock
single_writer_step ==
  /\ (all_players_basic_info' # all_players_basic_info
        \/ unique_player_ids' # unique_player_ids)
       => /\ futures' = futures /\ lock' = lock
          /\ \E t \in DOMAIN futures :
               t \notin yielded /\ t \in yielded' /\ futures[t].st = "finished"
  /\ data_list' # data_list
       => /\ pfutures' = pfutures /\ lock' = lock
          /\ \E i \in DOMAIN pfutures :
               i \notin pyielded /\ i \in pyielded' /\ pfutures[i].st = "finished"
  /\ stop_ranks' # stop_ranks
       => \E t \in DOMAIN futures :
            /\ lock = {<<1, t>>} /\ futures[t].pc = "stop_write"
            /\ futures'[t].pc # "stop_write"
  /\ completed_count_step1' # completed_count_step1
       => \E t \in DOMAIN futures :
            /\ lock = {<<1, t>>} /\ futures[t].pc = "count_write"
            /\ futures'[t].st = "finished"
  /\ completed_count_step2' # completed_count_step2
       => \E i \in DOMAIN pfutures :
            /\ lock = {<<2, i>>} /\ pfutures[i].pc = "count_write"
            /\ pfutures'[i].st = "finished"

\* C30: the harvested lists, the set of seen identity keys and the record list
\* are written by the main thread only, when it takes a finished future; the
\* workers write the stop ranks and the counters only, each write while the
\* writer holds the lock.
C30_SingleWriter == [][single_writer_step]_vars

\* a worker waits for the lock that another worker holds for its write, while
\* the main thread has already harvested entities
C30_Witness ==
  \E t, u \in DOMAIN futures :
    /\ t # u /\ lock = {<<1, t>>}
    /\ futures[t].pc \in {"stop_write", "count_write"}
    /\ futures[u].st = "running" /\ futures[u].pc \in {"stop_cs", "count_cs"}
    /\ all_players_basic_info[ranking_type] # <<>>

\* the phase of the pipeline the main thread is in: 1 Init, 2 Authenticating
\* (the operator is asked), 3 ProbingLiveness, 4 Harvesting, 5 FetchingDetails,
\* 6 Done (collect_data has returned), 7 the run is left otherwise: Aborted by
\* SystemExit, or by an unhandled exception (unwinding or ended)
phase_of(p) ==
  CASE p = "login" -> 1
    [] p \in {"login_prompt", "login_answered"} -> 2
    [] p = "liveness" -> 3
    [] p \in {"harvest_submit", "harvest_wait", "save_ranking"} -> 4
    [] p \in {"detail_submit", "detail_wait"} -> 5
    [] p = "done" -> 6
    [] OTHER -> 7

\* one step of the pipeline keeps the order of the phases
phase_step ==
  /\ phase_of(pc') >= phase_of(pc)
  /\ phase_of(pc) \in {6, 7} => phase_of(pc') = phase_of(pc)
  /\ (phase_of(pc') = 3 /\ phase_of(pc) # 3) => phase_of(pc) \in {1, 2}
  /\ (phase_of(pc') = 4 /\ phase_of(pc) # 4)
       => phase_of(pc) = 3 /\ futures[0].st = "finished"
  /\ (phase_of(pc') = 5 /\ phase_of(pc) # 5)
       => phase_of(pc) = 4 /\ type_idx = Len(types_to_fetch) /\ futures = <<>>
  \* executor.submit of a probe: in Harvesting, the test request is over
  /\ (\E t \in DOMAIN futures' : t # 0 /\ t \notin DOMAIN futures)
       => phase_of(pc) = 4 /\ 0 \notin DOMAIN futures
  \* a detail fetch is submitted, or moves on a worker (also while the pool
  \* of an ended run is drained): the harvest is over, no probe is left
  /\ (pfutures' # pfutures /\ pfutures' # <<>>)
       => /\ phase_of(pc) \in {5, 7}
          /\ pfutures = <<>> => pc = "detail_submit"
          /\ \A t \in DOMAIN futures : futures[t].st \in {"finished", "cancelled"}

\* C31: the main thread goes through Init, Authenticating, ProbingLiveness,
\* Harvesting, FetchingDetails and Done in this order (a phase may be left for
\* an end of the run); no probe is submitted before the test request has
\* returned and no detail fetch before every probe of every stream is
\* finished or cancelled.
C31_PhaseOrder == pc = "login" /\ [][phase_step]_vars

\* a run through every phase: all streams were harvested and the final sink
\* was written
C31_Witness ==
  /\ pc = "done"
  /\ \E k \in 1..Len(sinks) : sinks[k].name \in {"ranking_full", "grade_full"}
  /\ type_idx = Len(types_to_fetch)

\* C32: the stop rank of a stream is written only by a request whose answer
\* was a page with no entries, never by one whose answer was an API error
\* object (nor by a short-circuited or failed one, which do not reach the write).
C32_StopLoweredOnlyByEmptyPage ==
  [][\A t \in DOMAIN futures :
        (lock = {<<1, t>>} /\ futures[t].pc = "stop_write" /\ stop_ranks' # stop_ranks)
        => /\ t \notin error_seen[ranking_type]
           /\ futures[t].rank \in empty_seen[ranking_type]]_vars

\* the as_completed loop of the current stream has handled every future
harvest_handled ==
  pc = "harvest_wait" /\ futures # <<>> /\ yielded = DOMAIN futures

\* every entry of the page is in the list of the stream (the grade collector
\* keeps one entry per identity key)
aggregated(rows, list) ==
  \A k \in 1..Len(rows) :
    \E j \in 1..Len(list) :
      IF collector = "grade" THEN list[j].player_id = rows[k].player_id
      ELSE list[j] = summary(rows[k])

\* C33: when the loop of a stream has handled all its futures, a probe whose
\* offset is not above the stop rank of the stream was not cancelled, and the
\* entries of its page, if it got one, are in the harvest of the stream; and a
\* probe is short-circuited only when its offset is above the stop rank.
C33_CompleteBelowTail ==
  /\ [](harvest_handled =>
          \A t \in DOMAIN futures :
            ~GT(futures[t].rank, stop_of(ranking_type))
              => /\ futures[t].st = "finished"
                 /\ futures[t].res.kind = "value"
                      => aggregated(futures[t].res.rows,
                                    all_players_basic_info[ranking_type]))
  /\ [][\A t \in DOMAIN futures :
          (t \in DOMAIN futures' /\ futures[t].pc = "attempt"
             /\ futures'[t].st = "finished")
          => GT(futures[t].rank, stop_of(ranking_type))]_vars

\* the harvest of a stream is over with a stop rank: a probe below it brought
\* entries, and a probe above it was short-circuited
C33_Witness ==
  /\ harvest_handled
  /\ stop_of(ranking_type) # inf
  /\ \E t, u \in DOMAIN futures :
       /\ LT(futures[t].rank, stop_of(ranking_type))
       /\ futures[t].st = "finished" /\ futures[t].res.rows # <<>>
       /\ GT(futures[u].rank, stop_of(ranking_type))
       /\ futures[u].st = "finished" /\ futures[u].res.kind = "value"
       /\ futures[u].rank \notin empty_seen[ranking_type]

\* C34: when the as_completed loop takes a cancelled future, the offset of
\* the future is above the stop rank of its stream and the loop goes on: no
\* CancelledError is raised on the main thread.
C34_CancelledNeverRead ==
  [][\A t \in DOMAIN futures :
        (t \notin yielded /\ t \in yielded' /\ futures[t].st = "cancelled")
        => /\ GT(futures[t].rank, stop_of(ranking_type))
           /\ pc' = pc
           /\ all_players_basic_info' = all_players_basic_info]_vars

\* the loop has taken a cancelled future and is still running
C34_Witness ==
  /\ pc = "harvest_wait"
  /\ \E t \in yielded : t \in DOMAIN futures /\ futures[t].st = "cancelled"

\* a 200 response whose body is an API error object other than the sentinel
ApiErrorResponse(r) == r.t = "response" /\ r.status = 200 /\ r.code = "other"

\* C35: an attempt that obtains a 200 response whose body carries an
\* error_code other than the sentinel is the last one: the wrapper returns the
\* body from it, without a retry, without a sleep after it, and not None.
C35_ApiErrorReturned ==
  \A i \in 1..Len(wrapper.calls) :
    ApiErrorResponse(wrapper.calls[i]) =>
      /\ i = Len(wrapper.calls)
      /\ wrapper.pc = "out" /\ wrapper.out = "return"
      /\ wrapper.retries = i - 1
      /\ Len(wrapper.sleeps) = i - 1

\* the second attempt, after a failed one, obtained the error object
C35_Witness ==
  /\ wrapper.out = "return"
  /\ Len(wrapper.calls) = 2
  /\ OrdinaryFailure(wrapper.calls[1])
  /\ ApiErrorResponse(wrapper.calls[2])

\* the requests of a phase that are between the processing of their 200
\* answer and the end of their increment of the counter
counting(fs) ==
  {u \in DOMAIN fs : fs[u].st = "running"
                       /\ fs[u].pc \in {"stop_cs", "stop_write", "count_cs", "count_write"}}

\* C36: each counter is the number of requests of its phase whose 200 answer
\* was processed, less those that have not yet finished the increment: once
\* the units of a phase are over, no increment is lost and nothing else is
\* counted.
C36_NoLostCount ==
  /\ completed_count_step1 + Cardinality(counting(futures)) = processed[1]
  /\ completed_count_step2 + Cardinality(counting(pfutures)) = processed[2]

\* the run is over; in each phase at least two requests were counted and one
\* unit was not (failed for good or short-circuited)
C36_Witness ==
  /\ pc = "done"
  /\ completed_count_step1 >= 2 /\ completed_count_step2 >= 2
  /\ completed_count_step1 = processed[1]
  /\ completed_count_step2 = processed[2]
  /\ faults > 0

\* C37: when the fanout is over and no detail fetch gave a record, the run
\* ends in Done without a call of the final sink.
C37_NoRecordEndsDone ==
  [][(pc = "detail_wait" /\ pfutures # <<>> /\ pyielded = DOMAIN pfutures
        /\ data_list = <<>> /\ pc' # pc)
     => (pc' = "done" /\ sinks' = sinks)]_vars

\* C39: generate_rank_targets(n) is the list 1, 27, 53, ... of the offsets
\* 1 + 26k that are <= n, in ascending order (empty when n < 1), and every rank
\* from 1 to n is on the page of 26 entries of exactly one of the offsets.
C39_RankTargetsCover ==
  rank_targets.pc = "returned" =>
    LET n == rank_targets.target_count
        ranks == rank_targets.ranks
    IN /\ \A i \in 1..Len(ranks) : ranks[i] = 1 + STEP * (i - 1) /\ ranks[i] <= n
       /\ \A k \in 0..MaxTargetCount :
            1 + STEP * k <= n => \E i \in 1..Len(ranks) : ranks[i] = 1 + STEP * k
       /\ n < 1 => ranks = <<>>
       /\ \A rank \in 1..n :
            Cardinality({i \in 1..Len(ranks) :
                           ranks[i] <= rank /\ rank < ranks[i] + STEP}) = 1

\* the call for a target_count that is itself an offset: 1, 27, 53
C39_Witness ==
  /\ rank_targets.pc = "returned"
  /\ rank_targets.target_count = 2 * STEP + 1
  /\ rank_targets.ranks = <<1, STEP + 1, 2 * STEP + 1>>

\* the sibling streams A, B, C
siblings == SeqToSet(sibling_types)

\* C40: with ranking type 20 the ranking collector works on the total stream
\* only: the sibling streams get no probe, their stop ranks stay unbounded,
\* their lists empty, and no record has sibling fields; with ranking type 21
\* the four streams are harvested one after the other, a stream beginning
\* when every probe of the stream before it is finished or cancelled.
C40_PreviousDayPrimaryOnly ==
  /\ [](is_previous_day =>
          /\ type_idx = 1 /\ ranking_type = ranking_day_type
          /\ \A rt \in siblings :
               /\ stop_ranks[rt] = inf
               /\ all_players_basic_info[rt] = <<>>
               /\ empty_seen[rt] = {} /\ error_seen[rt] = {}
          /\ \A j \in 1..Len(data_list) : data_list[j].sib = <<>>)
  /\ []((collector = "ranking" /\ ranking_day_type = 21
          /\ pc \in {"save_ranking", "detail_submit", "detail_wait"})
         => type_idx = 1 + Len(sibling_types))
  /\ [][(collector = "ranking" /\ type_idx' # type_idx)
          => /\ type_idx' = type_idx + 1
             /\ yielded = DOMAIN futures
             /\ \A t \in DOMAIN futures : futures[t].st \in {"finished", "cancelled"}
             /\ futures' = <<>>]_vars

\* a run of the previous day that harvested the total stream and wrote its
\* records
C40_Witness ==
  /\ is_previous_day
  /\ pc = "done"
  /\ data_list # <<>>
  /\ \E k \in 1..Len(sinks) : sinks[k].name = "ranking_full"

\* a run of the current day in which every one of the four streams brought
\* entries
C40_WitnessCurrentDay ==
  /\ collector = "ranking" /\ ranking_day_type = 21
  /\ pc = "done"
  /\ \A rt \in siblings \cup {21} : all_players_basic_info[rt] # <<>>

\* collect_data is over: it has returned, the process has exited, or an
\* exception has left it
terminated == pc \in {"done", "aborted", "crashed"}

\* C38: every run reaches Done (collect_data returns) or Aborted (the process
\* exits on the fatal signal).
C38_ReachesDoneOrAborted == <>(pc \in {"done", "aborted"})

\* what does hold: every run comes to an end, be it by an unhandled exception;
\* a unit of work is never in an attempt beyond max_retries; and when all the
\* units of a phase are finished or cancelled the phase ends.
C38_Termination ==
  /\ <>terminated
  /\ [](\A t \in DOMAIN futures : futures[t].retries < max_retries)
  /\ [](\A i \in DOMAIN pfutures : pfutures[i].retries < max_retries)
  /\ (pc = "harvest_wait" /\ AllProbesFinished) ~> (futures = <<>> \/ terminated)
  /\ (pc = "detail_wait"
        /\ \A i \in DOMAIN pfutures : pfutures[i].st = "finished") ~> terminated

\* the run is over after both phases, with MaxFaults failed attempts on the way
C38_TerminationWitness ==
  /\ pc = "done"
  /\ \E k \in 1..Len(sinks) : sinks[k].name \in {"ranking_full", "grade_full"}
  /\ faults = MaxFaults

====
